---- MODULE Spec2Model ----
(***************************************************************************)
(* A model of the lox front end and tree-walking evaluator:                *)
(*   src/src/scanner.rs           source bytes  -> tokens                  *)
(*   src/src/parser.rs            tokens        -> statements              *)
(*   src/src/tree_interpreter.rs  statements    -> output / runtime error  *)
(*   src/src/main.rs              the pipeline that chains the three       *)
(*                                                                         *)
(* Text is a sequence of bytes, each byte written as a one-character       *)
(* string; the two bytes of the UTF-8 encoding of U+00E9 are written       *)
(* "0xC3" and "0xA9".                                                      *)
(***************************************************************************)
EXTENDS Integers, Sequences, FiniteSets, TLC

VARIABLES
    phase,        \* position of the running program (see each specification)
    input,        \* the script text handed to scan_tokens
    scanner,      \* struct Scanner
    stderr,       \* the diagnostic stream written by format_error
    parser,       \* struct Parser
    statements,   \* the local `statements` of Parser::parse
    parseResult,  \* the Result returned by Parser::parse
    program,      \* the statement list handed to Interpreter::interpret
    ip,           \* number of statements interpret has executed so far
    env,          \* Environment.values
    stdout,       \* the console lines written by println!
    result,       \* the Result returned by Interpreter::interpret
    defined,      \* history of the define calls made on env (ghost)
    looked,       \* the last LookupResult / get result returned
    operands,     \* the operator and operand expressions handed to visit_binary
    outcome,      \* the Result returned by visit_binary
    turns         \* turns of the loop of Parser::synchronize taken so far

vars == <<phase, input, scanner, stderr, parser, statements, parseResult,
          program, ip, env, stdout, result, defined, looked, operands, outcome,
          turns>>

(***************************************************************************)
(* Bounds of the model.                                                    *)
(***************************************************************************)
MaxSrcLen == 4    \* longest byte-level source text of SpecScan
MaxStmts == 3     \* longest program (in statements) of Spec and SpecInterp
MaxOps == 3       \* most binary operators in a generated expression of Spec
MaxInt == 2       \* Number operands of SpecBinary range over -1 .. MaxInt
MaxDefines == 3   \* most define calls of SpecEnv

(***************************************************************************)
(* Characters.  The scanner reads bytes and widens each with               *)
(* char::from(u8), so a byte >= 0x80 is read as the Latin-1 character of   *)
(* the same number: 0xC3 is U+00C3 (alphabetic), 0xA9 is U+00A9 (not).     *)
(***************************************************************************)
NUL == "NUL"
NewLine == "\n"
Quote == "\""

AsciiDigits == {"0", "1", "2", "3", "4", "5", "6", "7", "8", "9"}

AsciiLetters ==
    {"a", "b", "c", "d", "e", "f", "g", "h", "i", "j", "k", "l", "m",
     "n", "o", "p", "q", "r", "s", "t", "u", "v", "w", "x", "y", "z",
     "A", "B", "C", "D", "E", "F", "G", "H", "I", "J", "K", "L", "M",
     "N", "O", "P", "Q", "R", "S", "T", "U", "V", "W", "X", "Y", "Z"}

Utf8Lead == "0xC3"
Utf8Cont == "0xA9"

\* char::is_alphabetic on the characters of the model
is_alphabetic(c) == c \in AsciiLetters \cup {Utf8Lead}

is_alpha(c) == is_alphabetic(c) \/ c = "_"

is_ascii_digit(c) == c \in AsciiDigits

is_alpha_numeric(c) == is_alpha(c) \/ is_ascii_digit(c)

\* String::from_utf8(bytes).is_ok(): every lead byte is followed by its
\* continuation byte and no continuation byte stands alone
RECURSIVE from_utf8_ok(_)
from_utf8_ok(bytes) ==
    IF bytes = <<>> THEN TRUE
    ELSE IF Head(bytes) = Utf8Lead
         THEN Len(bytes) >= 2 /\ bytes[2] = Utf8Cont
              /\ from_utf8_ok(SubSeq(bytes, 3, Len(bytes)))
    ELSE IF Head(bytes) = Utf8Cont THEN FALSE
    ELSE from_utf8_ok(Tail(bytes))

(***************************************************************************)
(* f64.  A finite Number is written exactly, as                            *)
(*     c[1]/EPS + c[2] + c[3]*EPS + c[4]*EPS^2                             *)
(* with rational coefficients c[i] = <<numerator, denominator>> and        *)
(* EPS = f64::EPSILON = 2^-52: the model can then hold 1, 1/2 and EPS/2    *)
(* side by side, which no fixed-point scale within TLC's integers can.     *)
(* The coefficients of the model are small (far below 1/EPS), so the       *)
(* order of two such numbers is decided by the lowest power of EPS in      *)
(* which they differ.  The arithmetic is exact where f64 rounds to the     *)
(* nearest representable value; infinities and NaN follow IEEE 754.        *)
(***************************************************************************)
RECURSIVE GCD(_, _)
GCD(a, b) == IF b = 0 THEN a ELSE GCD(b, a % b)

AbsInt(a) == IF a < 0 THEN -a ELSE a

Rat(n, d) ==
    LET g == GCD(AbsInt(n), AbsInt(d))
        s == IF d < 0 THEN -1 ELSE 1
    IN  IF n = 0 THEN <<0, 1>> ELSE <<s * (n \div g), s * (d \div g)>>

R0 == <<0, 1>>
RatAdd(a, b) == Rat(a[1] * b[2] + b[1] * a[2], a[2] * b[2])
RatNeg(a) == <<-a[1], a[2]>>
RatMul(a, b) == Rat(a[1] * b[1], a[2] * b[2])
RatDiv(a, b) == Rat(a[1] * b[2], a[2] * b[1])     \* b /= 0
RatSgn(a) == IF a[1] > 0 THEN 1 ELSE IF a[1] < 0 THEN -1 ELSE 0

\* limb i holds the coefficient of EPS^(i - 2)
Limbs == 1 .. 4
ZeroLimbs == [i \in Limbs |-> R0]

Fin(c) == [cls |-> "fin", c |-> c]
Infinity == [cls |-> "inf", c |-> ZeroLimbs]
NegInfinity == [cls |-> "ninf", c |-> ZeroLimbs]
NaN == [cls |-> "nan", c |-> ZeroLimbs]

\* the f64 of the rational n/d
NumRat(n, d) == Fin([i \in Limbs |-> IF i = 2 THEN Rat(n, d) ELSE R0])
NumInt(n) == NumRat(n, 1)
\* n/d * f64::EPSILON
NumEps(n, d) == Fin([i \in Limbs |-> IF i = 3 THEN Rat(n, d) ELSE R0])
EPSILON == NumEps(1, 1)

is_nan(x) == x.cls = "nan"

\* sign of a finite number: that of its dominant (lowest power) coefficient
RECURSIVE LimbSgn(_, _)
LimbSgn(c, i) ==
    IF i > Len(c) THEN 0
    ELSE IF RatSgn(c[i]) /= 0 THEN RatSgn(c[i]) ELSE LimbSgn(c, i + 1)

NumSgn(x) ==
    CASE x.cls = "fin" -> LimbSgn(x.c, 1)
      [] x.cls = "inf" -> 1
      [] x.cls = "ninf" -> -1
      [] OTHER -> 0

\* x == 0.0 (the model has one zero: -0.0 == 0.0 in f64)
NumIsZero(x) == x.cls = "fin" /\ NumSgn(x) = 0

NumNeg(x) ==
    CASE x.cls = "fin" -> Fin([i \in Limbs |-> RatNeg(x.c[i])])
      [] x.cls = "inf" -> NegInfinity
      [] x.cls = "ninf" -> Infinity
      [] OTHER -> NaN

NumAbs(x) == IF NumSgn(x) < 0 THEN NumNeg(x) ELSE x

NumAdd(x, y) ==
    CASE is_nan(x) \/ is_nan(y) -> NaN
      [] x.cls = "fin" /\ y.cls = "fin" ->
            Fin([i \in Limbs |-> RatAdd(x.c[i], y.c[i])])
      [] x.cls = "fin" -> y
      [] y.cls = "fin" -> x
      [] x.cls = y.cls -> x
      [] OTHER -> NaN                      \* inf + -inf

NumSub(x, y) == NumAdd(x, NumNeg(y))

\* sum over i + j = k (as powers of EPS) of a[i] * b[j], from limb i on
RECURSIVE Convolve(_, _, _, _)
Convolve(a, b, k, i) ==
    IF i > Len(a) THEN R0
    ELSE LET j == k - i + 2                \* limb of b: powers add up
         IN  RatAdd(IF j \in Limbs THEN RatMul(a[i], b[j]) ELSE R0,
                    Convolve(a, b, k, i + 1))

SignedInf(s) == IF s < 0 THEN NegInfinity ELSE Infinity

NumMul(x, y) ==
    CASE is_nan(x) \/ is_nan(y) -> NaN
      [] x.cls = "fin" /\ y.cls = "fin" ->
            Fin([k \in Limbs |-> Convolve(x.c, y.c, k, 1)])
      [] NumSgn(x) = 0 \/ NumSgn(y) = 0 -> NaN       \* inf * 0
      [] OTHER -> SignedInf(NumSgn(x) * NumSgn(y))

\* limb of the dominant coefficient of a non-zero finite number
RECURSIVE Dominant(_, _)
Dominant(c, i) == IF RatSgn(c[i]) /= 0 THEN i ELSE Dominant(c, i + 1)

\* x / y.  A finite divisor of the model has one non-zero coefficient
\* (it is r * EPS^p), and the division by it is exact.
NumDiv(x, y) ==
    CASE is_nan(x) \/ is_nan(y) -> NaN
      [] x.cls /= "fin" /\ y.cls /= "fin" -> NaN     \* inf / inf
      [] x.cls /= "fin" ->
            SignedInf(NumSgn(x) * (IF NumSgn(y) < 0 THEN -1 ELSE 1))
      [] y.cls /= "fin" -> NumInt(0)
      [] NumSgn(y) = 0 ->
            IF NumSgn(x) = 0 THEN NaN ELSE SignedInf(NumSgn(x))
      [] OTHER ->
            LET d == Dominant(y.c, 1)
                shift == d - 2                       \* y = y.c[d] * EPS^shift
            IN  Fin([k \in Limbs |->
                       IF k + shift \in Limbs
                       THEN RatDiv(x.c[k + shift], y.c[d]) ELSE R0])

\* x < y; false when either is NaN
NumLt(x, y) == ~is_nan(x) /\ ~is_nan(y) /\ x /= y /\ NumSgn(NumSub(y, x)) > 0
NumLe(x, y) == ~is_nan(x) /\ ~is_nan(y) /\ (x = y \/ NumLt(x, y))
NumGt(x, y) == NumLt(y, x)
NumGe(x, y) == NumLe(y, x)

\* an integral finite number, and its integer
NumIsInt(x) ==
    /\ x.cls = "fin"
    /\ \A i \in Limbs : i /= 2 => x.c[i] = R0
    /\ x.c[2][2] = 1
NumToInt(x) == x.c[2][1]

(***************************************************************************)
(* Tokens (scanner.rs).                                                    *)
(***************************************************************************)
NoLiteral == [kind |-> "None", num |-> NumInt(0), str |-> <<>>]
NumberLiteral(n) == [kind |-> "Number", num |-> n, str |-> <<>>]
StringLiteral(s) == [kind |-> "String", num |-> NumInt(0), str |-> s]

Token(t_type, lexeme, line, literal) ==
    [t_type |-> t_type, lexeme |-> lexeme, line |-> line, literal |-> literal]

\* Scanner::default().keywords
keywords ==
    (<<"a", "n", "d">> :> "And") @@
    (<<"c", "l", "a", "s", "s">> :> "Class") @@
    (<<"e", "l", "s", "e">> :> "Else") @@
    (<<"f", "a", "l", "s", "e">> :> "False") @@
    (<<"f", "o", "r">> :> "For") @@
    (<<"f", "u", "n">> :> "Fun") @@
    (<<"i", "f">> :> "If") @@
    (<<"n", "i", "l">> :> "Nil") @@
    (<<"o", "r">> :> "Or") @@
    (<<"p", "r", "i", "n", "t">> :> "Print") @@
    (<<"r", "e", "t", "u", "r", "n">> :> "Return") @@
    (<<"s", "u", "p", "e", "r">> :> "Super") @@
    (<<"t", "h", "i", "s">> :> "This") @@
    (<<"t", "r", "u", "e">> :> "True") @@
    (<<"v", "a", "r">> :> "Var") @@
    (<<"w", "h", "i", "l", "e">> :> "While")

NoError == <<"None", "">>

\* Scanner::default()
DefaultScanner ==
    [source |-> <<>>, tokens |-> <<>>, start |-> 0, current |-> 0,
     line |-> 1, col |-> -1, error |-> NoError]

\* Scanner::is_at_end
scanner_is_at_end(s) == s.current >= Len(s.source)

\* Scanner::peek, Scanner::peek_next (indices of the code are 0-based)
scanner_peek(s) == IF scanner_is_at_end(s) THEN NUL ELSE s.source[s.current + 1]
peek_next(s) ==
    IF s.current + 1 >= Len(s.source) THEN NUL ELSE s.source[s.current + 2]

\* Scanner::advance: the scanner after it (the character read is
\* s.source[s.current + 1])
scanner_advance(s) == [s EXCEPT !.current = @ + 1]

\* Scanner::matches: the scanner after it; it has matched iff current moved
scanner_matches(s, c) ==
    IF scanner_is_at_end(s) THEN s
    ELSE IF s.source[s.current + 1] /= c THEN s
    ELSE [s EXCEPT !.current = @ + 1]

\* Scanner::add_token_literal
add_token_literal(s, token_type, literal) ==
    [s EXCEPT !.tokens =
        Append(@, Token(token_type,
                        SubSeq(s.source, s.start + 1, s.current),
                        s.line, literal))]

\* Scanner::add_token
add_token(s, token_type) == add_token_literal(s, token_type, NoLiteral)

\* error_format::format_error: the line it writes to the diagnostic stream
format_error(message, line, col) == [message |-> message, line |-> line, col |-> col]

\* what one call of a scanning routine leaves: the scanner, the lines it
\* wrote to the diagnostic stream, and whether it panicked
Scanned(s) == [s |-> s, err |-> <<>>, panic |-> FALSE]

\* the one- or two-character operators: `c` then an optional '='
OneOrTwo(s, two, one) ==
    LET m == scanner_matches(s, "=")
    IN  Scanned(add_token(m, IF m.current /= s.current THEN two ELSE one))

\* the loop of a line comment: while peek() != '\n' && !is_at_end()
RECURSIVE SkipComment(_)
SkipComment(s) ==
    IF scanner_peek(s) /= NewLine /\ ~scanner_is_at_end(s)
    THEN SkipComment(scanner_advance(s)) ELSE s

RECURSIVE WhileDigit(_)
WhileDigit(s) ==
    IF is_ascii_digit(scanner_peek(s)) THEN WhileDigit(scanner_advance(s)) ELSE s

RECURSIVE WhileAlphaNumeric(_)
WhileAlphaNumeric(s) ==
    IF is_alpha_numeric(scanner_peek(s))
    THEN WhileAlphaNumeric(scanner_advance(s)) ELSE s

DigitValue(c) ==
    CASE c = "0" -> 0 [] c = "1" -> 1 [] c = "2" -> 2 [] c = "3" -> 3
      [] c = "4" -> 4 [] c = "5" -> 5 [] c = "6" -> 6 [] c = "7" -> 7
      [] c = "8" -> 8 [] c = "9" -> 9

RECURSIVE Pow10(_)
Pow10(n) == IF n = 0 THEN 1 ELSE 10 * Pow10(n - 1)

\* the integer written by a run of digits
RECURSIVE DigitsValue(_)
DigitsValue(ds) ==
    IF ds = <<>> THEN 0
    ELSE 10 * DigitsValue(SubSeq(ds, 1, Len(ds) - 1)) + DigitValue(ds[Len(ds)])

\* str::parse::<f64> on digits with an optional ".digits"
parse_f64(text) ==
    LET dots == {i \in 1 .. Len(text) : text[i] = "."}
    IN  IF dots = {} THEN NumInt(DigitsValue(text))
        ELSE LET dot == CHOOSE i \in dots : TRUE
                 whole == SubSeq(text, 1, dot - 1)
                 frac == SubSeq(text, dot + 1, Len(text))
             IN  NumRat(DigitsValue(whole \o frac), Pow10(Len(frac)))

\* Scanner::number
number(s) ==
    LET s1 == WhileDigit(s)
        s2 == IF scanner_peek(s1) = "." /\ is_ascii_digit(peek_next(s1))
              THEN WhileDigit(scanner_advance(s1)) ELSE s1
        digit == parse_f64(SubSeq(s2.source, s2.start + 1, s2.current))
    IN  Scanned(add_token_literal(s2, "Number", NumberLiteral(digit)))

\* Scanner::identifier.  The lexeme goes through String::from_utf8(..).unwrap().
identifier(s) ==
    LET s1 == WhileAlphaNumeric(s)
        literal == SubSeq(s1.source, s1.start + 1, s1.current)
        token_type == IF literal \in DOMAIN keywords
                      THEN keywords[literal] ELSE "Identifier"
    IN  IF ~from_utf8_ok(literal)
        THEN [s |-> s1, err |-> <<>>, panic |-> TRUE]
        ELSE Scanned(add_token(s1, token_type))

\* the loop of Scanner::string: while peek() != '"' && !is_at_end()
RECURSIVE WhileInString(_)
WhileInString(s) ==
    IF scanner_peek(s) /= Quote /\ ~scanner_is_at_end(s)
    THEN WhileInString(scanner_advance(
             IF scanner_peek(s) = NewLine THEN [s EXCEPT !.line = @ + 1] ELSE s))
    ELSE s

\* Scanner::string
string(s) ==
    LET s1 == WhileInString(s)
    IN  IF scanner_is_at_end(s1)
        THEN LET error == <<"Unterminated string.", "">>
             IN  [s |-> [s1 EXCEPT !.error = error],
                  err |-> <<format_error(error, s1.line, s1.col)>>,
                  panic |-> FALSE]
        ELSE LET s2 == scanner_advance(s1)
                 str == SubSeq(s2.source, s2.start + 2, s2.current - 1)
             IN  IF ~from_utf8_ok(str)
                 THEN [s |-> s2, err |-> <<>>, panic |-> TRUE]
                 ELSE Scanned(add_token_literal(s2, "String", StringLiteral(str)))

\* Scanner::scan_token
scan_token(s0) ==
    LET c == s0.source[s0.current + 1]
        s == scanner_advance(s0)
    IN  CASE c = "(" -> Scanned(add_token(s, "LeftParen"))
          [] c = ")" -> Scanned(add_token(s, "RightParen"))
          [] c = "{" -> Scanned(add_token(s, "LeftBrace"))
          [] c = "}" -> Scanned(add_token(s, "RightBrace"))
          [] c = "," -> Scanned(add_token(s, "Comma"))
          [] c = "." -> Scanned(add_token(s, "Dot"))
          [] c = "-" -> Scanned(add_token(s, "Minus"))
          [] c = "+" -> Scanned(add_token(s, "Plus"))
          [] c = "*" -> Scanned(add_token(s, "Star"))
          [] c = ";" -> Scanned(add_token(s, "Semicolon"))
          [] c = "!" -> OneOrTwo(s, "BangEqual", "Bang")
          [] c \in {" ", "\r", "\t"} -> Scanned(s)
          [] c = NewLine -> Scanned([s EXCEPT !.line = @ + 1, !.col = 0])
          [] c = Quote -> string(s)
          [] c = "=" -> OneOrTwo(s, "EqualEqual", "Equal")
          [] c = "<" -> OneOrTwo(s, "LessEqual", "Less")
          [] c = ">" -> OneOrTwo(s, "GreaterEqual", "Greater")
          [] c = "/" ->
                LET m == scanner_matches(s, "/")
                IN  IF m.current /= s.current THEN Scanned(SkipComment(m))
                    ELSE Scanned(add_token(s, "Slash"))
          [] OTHER ->
                IF is_ascii_digit(c) THEN number(s)
                ELSE IF is_alpha(c) THEN identifier(s)
                ELSE LET error == <<"Invalid character", c>>
                     IN  [s |-> [s EXCEPT !.error = error],
                          err |-> <<format_error(error, s.line, s.col)>>,
                          panic |-> FALSE]

(***************************************************************************)
(* The scanner as a process: scan_tokens (scanner.rs 115-140).             *)
(*   phase "start"  scan_tokens entered, self.source not yet assigned      *)
(*   phase "scan"   in the loop  while !self.is_at_end()                   *)
(*   phase "scanned" the Eof token pushed, scan_tokens has returned        *)
(*   phase "panic in scan_tokens"  an unwrap() failed, the thread unwinds  *)
(***************************************************************************)
ScanStart ==
    /\ phase = "start"
    /\ scanner' = [scanner EXCEPT !.source = input]
    /\ phase' = "scan"
    /\ UNCHANGED <<input, stderr, parser, statements, parseResult, program,
                   ip, env, stdout, result, defined, looked, operands, outcome, turns>>

\* mutation of ScanToken: a lexical error ends the scan (the rest of the
\* source is skipped)
ScanTokenStopsOnError ==
    /\ phase = "scan"
    /\ ~scanner_is_at_end(scanner)
    /\ LET r == scan_token([scanner EXCEPT !.start = scanner.current])
       IN  /\ scanner' = IF r.err /= <<>>
                         THEN [r.s EXCEPT !.current = Len(scanner.source)]
                         ELSE r.s
           /\ stderr' = stderr \o r.err
           /\ phase' = IF r.panic THEN "panic in scan_tokens" ELSE "scan"
    /\ UNCHANGED <<input, parser, statements, parseResult, program,
                   ip, env, stdout, result, defined, looked, operands, outcome, turns>>

\* one turn of the loop: self.start = self.current; self.scan_token()
ScanToken ==
    /\ phase = "scan"
    /\ ~scanner_is_at_end(scanner)
    /\ LET r == scan_token([scanner EXCEPT !.start = scanner.current])
       IN  /\ scanner' = r.s
           /\ stderr' = stderr \o r.err
           /\ phase' = IF r.panic THEN "panic in scan_tokens" ELSE "scan"
    /\ UNCHANGED <<input, parser, statements, parseResult, program,
                   ip, env, stdout, result, defined, looked, operands, outcome, turns>>

\* the loop is left: push the Eof token and return
ScanEof ==
    /\ phase = "scan"
    /\ scanner_is_at_end(scanner)
    /\ scanner' = [scanner EXCEPT !.tokens =
                      Append(@, Token("Eof", <<>>, scanner.line, NoLiteral))]
    /\ phase' = "scanned"
    /\ UNCHANGED <<input, stderr, parser, statements, parseResult, program,
                   ip, env, stdout, result, defined, looked, operands, outcome, turns>>

(***************************************************************************)
(* The syntax tree (expr.rs).                                              *)
(***************************************************************************)
Symbol(name, line, col) == [name |-> name, line |-> line, col |-> col]
SourceLocation(line, col) == [line |-> line, col |-> col]

LiteralNumber(n) == [kind |-> "Number", num |-> n, str |-> <<>>]
LiteralString(s) == [kind |-> "String", num |-> NumInt(0), str |-> s]
LiteralTrue == [kind |-> "True", num |-> NumInt(0), str |-> <<>>]
LiteralFalse == [kind |-> "False", num |-> NumInt(0), str |-> <<>>]
LiteralNil == [kind |-> "Nil", num |-> NumInt(0), str |-> <<>>]

ExprLiteral(literal) == [node |-> "Literal", literal |-> literal]
ExprGrouping(e) == [node |-> "Grouping", e |-> e]
ExprUnary(op, e) == [node |-> "Unary", op |-> op, e |-> e]
ExprBinary(lhs, op, rhs) == [node |-> "Binary", lhs |-> lhs, op |-> op, rhs |-> rhs]
ExprVariable(symbol) == [node |-> "Variable", symbol |-> symbol]
ExprAssign(symbol, e) == [node |-> "Assign", symbol |-> symbol, e |-> e]
NoExpr == [node |-> "None"]                  \* Option::<Expr>::None

UnaryOp(op_type, line, col) == [op_type |-> op_type, line |-> line, col |-> col]
BinaryOp(op_type, line, col) == [op_type |-> op_type, line |-> line, col |-> col]

StmtExpr(e) == [stmt |-> "Expr", e |-> e]
StmtPrint(e) == [stmt |-> "Print", e |-> e]
StmtVarDecl(symbol, initilizer) ==
    [stmt |-> "VarDecl", symbol |-> symbol, initilizer |-> initilizer]

(***************************************************************************)
(* The parser (parser.rs).  A parsing routine returns Ok(value),           *)
(* Err(parse error) or panics; p is the parser it leaves.                  *)
(***************************************************************************)
Ok(p, v) == [kind |-> "Ok", p |-> p, v |-> v]
Err(p, e) == [kind |-> "Err", p |-> p, v |-> e]
Panic(p, m) == [kind |-> "Panic", p |-> p, v |-> m]

TokenMissmatch(expected, found, message) ==
    [error |-> "TokenMissmatch", expected |-> expected, found |-> found,
     message |-> message]
ExpectedExpression(token_type, line, col) ==
    [error |-> "ExpectedExpression", token_type |-> token_type, line |-> line,
     col |-> col]
InvalidAssignment(line, col) ==
    [error |-> "InvalidAssignment", line |-> line, col |-> col]

\* Parser::peek, Parser::previous (indices of the code are 0-based)
parser_peek(p) == p.tokens[p.current + 1]
previous(p) == p.tokens[p.current]

\* Parser::is_at_end
parser_is_at_end(p) == parser_peek(p).t_type = "Eof"

\* Parser::advance: the parser after it (the token returned is previous)
parser_advance(p) ==
    IF ~parser_is_at_end(p) THEN [p EXCEPT !.current = @ + 1] ELSE p

\* Parser::check
check(p, token_type) ==
    IF parser_is_at_end(p) THEN FALSE ELSE parser_peek(p).t_type = token_type

\* Parser::match_one: the parser after it; it has matched iff current moved
match_one(p, token_type) == IF check(p, token_type) THEN parser_advance(p) ELSE p

\* Parser::matches: the first of token_types that match_one accepts
RECURSIVE parser_matches(_, _)
parser_matches(p, token_types) ==
    IF token_types = <<>> THEN p
    ELSE LET m == match_one(p, Head(token_types))
         IN  IF m.current /= p.current THEN m
             ELSE parser_matches(p, Tail(token_types))

\* Parser::consume
consume(p, token_type, message) ==
    IF check(p, token_type)
    THEN LET a == parser_advance(p) IN Ok(a, previous(a))
    ELSE Err(p, TokenMissmatch(token_type, parser_peek(p), message))

\* Parser::token_to_unary_op
token_to_unary_op(token) ==
    CASE token.t_type = "Minus" -> UnaryOp("Minus", token.line, -1)
      [] token.t_type = "Bang" -> UnaryOp("Bang", token.line, -1)
      [] OTHER -> UnaryOp("Bang", token.line, -1)

\* Parser::token_to_binary_operator
token_to_binary_operator(token) ==
    IF token.t_type \in {"BangEqual", "EqualEqual", "Greater", "GreaterEqual",
                         "Less", "Plus", "Minus", "LessEqual", "Slash", "Star"}
    THEN BinaryOp(token.t_type, token.line, -1)
    ELSE BinaryOp("LessEqual", token.line, -1)

\* whether match_one / matches advanced the parser p to m
matched(p, m) == m.current /= p.current

\* the `?` on the Result c of a final consume: an Err is handed on, Ok
\* gives the finished value v
Finish(c, v) == IF c.kind /= "Ok" THEN c ELSE Ok(c.p, v)

RECURSIVE expression(_), assignment(_), equality(_), equality_while(_, _),
          comparison(_), comparison_while(_, _), term(_), term_while(_, _),
          factor(_), factor_while(_, _), unary(_), primary(_)

\* Parser::primary, a Number or String token matched (m: the parser after)
primary_literal(m) ==
    CASE previous(m).literal.kind = "Number" ->
            Ok(m, ExprLiteral(LiteralNumber(previous(m).literal.num)))
      [] previous(m).literal.kind = "String" ->
            Ok(m, ExprLiteral(LiteralString(previous(m).literal.str)))
      [] OTHER -> Panic(m, "Expected an literal")

\* Parser::primary, an Identifier token matched: the match on token.literal
primary_identifier(m) ==
    CASE previous(m).literal.kind = "Identifier" ->
            Ok(m, ExprVariable(Symbol(previous(m).literal.str, previous(m).line, -1)))
      [] previous(m).literal.kind = "None" ->
            Panic(m, "Internal parser error: literal not found while parsing identifier.")
      [] OTHER ->
            Panic(m, "Internal parser error: unexpected token while parsing identifier")

\* Parser::primary, a LeftParen matched and the inner expression parsed to e
primary_grouping(e) ==
    IF e.kind /= "Ok" THEN e
    ELSE Finish(consume(e.p, "RightParen", "Expect ')' after expression"),
                ExprGrouping(e.v))

\* Parser::primary
primary(p) ==
    IF matched(p, match_one(p, "False"))
    THEN Ok(match_one(p, "False"), ExprLiteral(LiteralFalse))
    ELSE IF matched(p, match_one(p, "True"))
    THEN Ok(match_one(p, "True"), ExprLiteral(LiteralTrue))
    ELSE IF matched(p, match_one(p, "Nil"))
    THEN Ok(match_one(p, "Nil"), ExprLiteral(LiteralNil))
    ELSE IF matched(p, parser_matches(p, <<"Number", "String">>))
    THEN primary_literal(parser_matches(p, <<"Number", "String">>))
    ELSE IF matched(p, match_one(p, "Identifier"))
    THEN primary_identifier(match_one(p, "Identifier"))
    ELSE IF matched(p, match_one(p, "LeftParen"))
    THEN primary_grouping(expression(match_one(p, "LeftParen")))
    ELSE Err(p, ExpectedExpression(parser_peek(p).t_type, parser_peek(p).line, -1))

\* Parser::unary, an operator matched and its operand parsed to right
unary_node(operator, right) ==
    IF right.kind /= "Ok" THEN right
    ELSE Ok(right.p, ExprUnary(token_to_unary_op(operator), right.v))

\* Parser::unary
unary(p) ==
    IF matched(p, parser_matches(p, <<"Minus", "Bang">>))
    THEN unary_node(previous(parser_matches(p, <<"Minus", "Bang">>)),
                    unary(parser_matches(p, <<"Minus", "Bang">>)))
    ELSE primary(p)

\* the body of the loop of Parser::factor: expr the tree folded so far,
\* operator the token matched, right the operand parsed after it
factor_fold(expr, operator, right) ==
    IF right.kind /= "Ok" THEN right
    ELSE factor_while(right.p,
            ExprBinary(expr, token_to_binary_operator(operator), right.v))

\* the loop of Parser::factor
factor_while(p, expr) ==
    IF matched(p, parser_matches(p, <<"Slash", "Star">>))
    THEN factor_fold(expr, previous(parser_matches(p, <<"Slash", "Star">>)),
                     unary(parser_matches(p, <<"Slash", "Star">>)))
    ELSE Ok(p, expr)

\* the `?` on the first operand of a level, then its loop
factor_first(expr) ==
    IF expr.kind /= "Ok" THEN expr ELSE factor_while(expr.p, expr.v)

\* Parser::factor
factor(p) == factor_first(unary(p))

\* the body of the loop of Parser::term
term_fold(expr, operator, right) ==
    IF right.kind /= "Ok" THEN right
    ELSE term_while(right.p,
            ExprBinary(expr, token_to_binary_operator(operator), right.v))

\* mutation of term_while: the right operand parsed at the same level (term)
\* instead of the next higher one (factor), which folds to the right
term_while_right(p, expr) ==
    IF matched(p, parser_matches(p, <<"Plus", "Minus">>))
    THEN term_fold(expr, previous(parser_matches(p, <<"Plus", "Minus">>)),
                   term(parser_matches(p, <<"Plus", "Minus">>)))
    ELSE Ok(p, expr)

\* the loop of Parser::term
term_while(p, expr) ==
    IF matched(p, parser_matches(p, <<"Plus", "Minus">>))
    THEN term_fold(expr, previous(parser_matches(p, <<"Plus", "Minus">>)),
                   factor(parser_matches(p, <<"Plus", "Minus">>)))
    ELSE Ok(p, expr)

term_first(expr) ==
    IF expr.kind /= "Ok" THEN expr ELSE term_while(expr.p, expr.v)

\* Parser::term
term(p) == term_first(factor(p))

ComparisonTokens == <<"Greater", "GreaterEqual", "Less", "LessEqual">>

\* the body of the loop of Parser::comparison
comparison_fold(expr, operator, right) ==
    IF right.kind /= "Ok" THEN right
    ELSE comparison_while(right.p,
            ExprBinary(expr, token_to_binary_operator(operator), right.v))

\* the loop of Parser::comparison
comparison_while(p, expr) ==
    IF matched(p, parser_matches(p, ComparisonTokens))
    THEN comparison_fold(expr, previous(parser_matches(p, ComparisonTokens)),
                         term(parser_matches(p, ComparisonTokens)))
    ELSE Ok(p, expr)

comparison_first(expr) ==
    IF expr.kind /= "Ok" THEN expr ELSE comparison_while(expr.p, expr.v)

\* Parser::comparison
comparison(p) == comparison_first(term(p))

\* the body of the loop of Parser::equality
equality_fold(expr, operator, right) ==
    IF right.kind /= "Ok" THEN right
    ELSE equality_while(right.p,
            ExprBinary(expr, token_to_binary_operator(operator), right.v))

\* the loop of Parser::equality
equality_while(p, expr) ==
    IF matched(p, parser_matches(p, <<"BangEqual", "EqualEqual">>))
    THEN equality_fold(expr, previous(parser_matches(p, <<"BangEqual", "EqualEqual">>)),
                       comparison(parser_matches(p, <<"BangEqual", "EqualEqual">>)))
    ELSE Ok(p, expr)

equality_first(expr) ==
    IF expr.kind /= "Ok" THEN expr ELSE equality_while(expr.p, expr.v)

\* Parser::equality
equality(p) == equality_first(comparison(p))

\* Parser::assignment, '=' matched: expr the left-hand side, equals the '='
\* token, assigned the right-hand side parsed
assignment_target(expr, equals, assigned) ==
    IF assigned.kind /= "Ok" THEN assigned
    ELSE IF expr.node = "Variable"
    THEN Ok(assigned.p, ExprAssign(expr.symbol, assigned.v))
    ELSE Err(assigned.p, InvalidAssignment(equals.line, -1))

\* Parser::assignment after  let expr = self.equality()?
assignment_rest(expr) ==
    IF expr.kind /= "Ok" THEN expr
    ELSE IF matched(expr.p, match_one(expr.p, "Equal"))
    THEN assignment_target(expr.v, previous(match_one(expr.p, "Equal")),
                           assignment(match_one(expr.p, "Equal")))
    ELSE expr

\* Parser::assignment
assignment(p) == assignment_rest(equality(p))

\* Parser::expression
expression(p) == assignment(p)

\* Parser::expression_stmt after  let expr = self.expression()?
expression_stmt_end(expr) ==
    IF expr.kind /= "Ok" THEN expr
    ELSE Finish(consume(expr.p, "Semicolon", "Expected ; after value."),
                StmtExpr(expr.v))

\* Parser::expression_stmt
expression_stmt(p) == expression_stmt_end(expression(p))

\* Parser::print_stmt after  let expr = self.expression()?
print_stmt_end(expr) ==
    IF expr.kind /= "Ok" THEN expr
    ELSE Finish(consume(expr.p, "Semicolon", "Expected ; after value."),
                StmtPrint(expr.v))

\* Parser::print_stmt
print_stmt(p) == print_stmt_end(expression(p))

\* Parser::statement
statement(p) ==
    IF matched(p, match_one(p, "Print"))
    THEN print_stmt(match_one(p, "Print")) ELSE expression_stmt(p)

\* Parser::var_declaration, the final consume done (c) : the statement,
\* its name read with String::from_utf8(name_token.lexeme).unwrap()
var_declaration_stmt(name_token, initilizer, c) ==
    IF c.kind /= "Ok" THEN c
    ELSE IF ~from_utf8_ok(name_token.lexeme) THEN Panic(c.p, "from_utf8")
    ELSE Ok(c.p, StmtVarDecl(Symbol(name_token.lexeme, name_token.line, -1),
                             initilizer))

\* Parser::var_declaration, the optional initializer parsed (init)
var_declaration_end(name_token, init) ==
    IF init.kind /= "Ok" THEN init
    ELSE var_declaration_stmt(name_token, init.v,
            consume(init.p, "Semicolon", "Expect ';' after variable declaration"))

\* Parser::var_declaration after  let name_token = self.consume(..)?
var_declaration_rest(name_token) ==
    IF name_token.kind /= "Ok" THEN name_token
    ELSE var_declaration_end(name_token.v,
            IF matched(name_token.p, match_one(name_token.p, "Equal"))
            THEN expression(match_one(name_token.p, "Equal"))
            ELSE Ok(name_token.p, NoExpr))

\* Parser::var_declaration
var_declaration(p) ==
    var_declaration_rest(consume(p, "Identifier", "Expect a variable name"))

\* Parser::declaration
declaration(p) ==
    IF matched(p, match_one(p, "Var"))
    THEN var_declaration(match_one(p, "Var")) ELSE statement(p)

(***************************************************************************)
(* Runtime values and the Environment (tree_interpreter.rs).               *)
(***************************************************************************)
ValueNumber(n) == [type |-> "Number", num |-> n, str |-> <<>>, bool |-> FALSE]
ValueString(s) == [type |-> "String", num |-> NumInt(0), str |-> s, bool |-> FALSE]
ValueBoolean(b) == [type |-> "Boolean", num |-> NumInt(0), str |-> <<>>, bool |-> b]
ValueNil == [type |-> "Nil", num |-> NumInt(0), str |-> <<>>, bool |-> FALSE]
NoValue == [type |-> "None", num |-> NumInt(0), str |-> <<>>, bool |-> FALSE]

\* instance_of
instance_of(val) == val.type

\* Environment.values is a HashMap: here a function from the names bound to
\* (Option<Value>, SourceLocation)
Binding(value, loc) == [value |-> value, loc |-> loc]

\* mutation of define: an existing entry is kept (an insert-if-absent)
define_keeps_first(values, symbol, value) ==
    IF symbol.name \in DOMAIN values THEN values
    ELSE [n \in DOMAIN values \cup {symbol.name} |->
            IF n = symbol.name
            THEN Binding(value, SourceLocation(symbol.line, symbol.col))
            ELSE values[n]]

\* Environment::define: HashMap::insert overwrites the entry of the name
define(values, symbol, value) ==
    [n \in DOMAIN values \cup {symbol.name} |->
        IF n = symbol.name
        THEN Binding(value, SourceLocation(symbol.line, symbol.col))
        ELSE values[n]]

LookupOk(val) == [kind |-> "Ok", val |-> val, loc |-> SourceLocation(0, 0)]
DeclaredNotDefined(loc) == [kind |-> "DeclaredNotDefined", val |-> NoValue, loc |-> loc]
NotDeclared == [kind |-> "NotDeclared", val |-> NoValue, loc |-> SourceLocation(0, 0)]

\* Environment::lookup
lookup(values, symbol) ==
    IF symbol.name \in DOMAIN values
    THEN IF values[symbol.name].value.type /= "None"
         THEN LookupOk(values[symbol.name].value)
         ELSE DeclaredNotDefined(SourceLocation(values[symbol.name].loc.line,
                                                values[symbol.name].loc.col))
    ELSE NotDeclared

\* a routine of the evaluator returns Ok(value), Err(message) or panics
EvOk(v) == [kind |-> "Ok", v |-> v]
EvErr(e) == [kind |-> "Err", v |-> e]
EvPanic(m) == [kind |-> "Panic", v |-> m]

\* Environment::get: the two messages it formats
get(values, symbol) ==
    LET l == lookup(values, symbol)
    IN  CASE l.kind = "Ok" -> EvOk(l.val)
          [] l.kind = "DeclaredNotDefined" ->
                EvErr([msg |-> "Use undefined variable; declared but not defined",
                       name |-> symbol.name, line |-> symbol.line, col |-> symbol.col,
                       declared |-> l.loc])
          [] OTHER ->
                EvErr([msg |-> "Use undefined variable",
                       name |-> symbol.name, line |-> symbol.line, col |-> symbol.col])

(***************************************************************************)
(* The evaluator (tree_interpreter.rs).                                    *)
(***************************************************************************)
\* Interpreter::visit_literal
visit_literal(literal) ==
    CASE literal.kind = "String" -> ValueString(literal.str)
      [] literal.kind = "Number" -> ValueNumber(literal.num)
      [] literal.kind = "True" -> ValueBoolean(TRUE)
      [] literal.kind = "False" -> ValueBoolean(FALSE)
      [] literal.kind = "Nil" -> ValueNil

\* Interpreter::is_truthy
is_truthy(val) ==
    CASE val.type = "Nil" -> FALSE
      [] val.type = "Boolean" -> val.bool
      [] OTHER -> TRUE

\* mutation of equals: Numbers compared exactly, without the tolerance
equals_exact(lhs, rhs) ==
    CASE lhs.type = "Boolean" /\ rhs.type = "Boolean" -> lhs.bool = rhs.bool
      [] lhs.type = "String" /\ rhs.type = "String" -> lhs.str = rhs.str
      [] lhs.type = "Number" /\ rhs.type = "Number" ->
            ~is_nan(lhs.num) /\ ~is_nan(rhs.num) /\ lhs.num = rhs.num
      [] lhs.type = "Nil" /\ rhs.type = "Nil" -> TRUE
      [] OTHER -> FALSE

\* Interpreter::equals
equals(lhs, rhs) ==
    CASE lhs.type = "Boolean" /\ rhs.type = "Boolean" -> lhs.bool = rhs.bool
      [] lhs.type = "String" /\ rhs.type = "String" -> lhs.str = rhs.str
      [] lhs.type = "Number" /\ rhs.type = "Number" ->
            IF is_nan(lhs.num) \/ is_nan(rhs.num) THEN FALSE
            ELSE NumLt(NumAbs(NumSub(lhs.num, rhs.num)), EPSILON)
      [] lhs.type = "Nil" /\ rhs.type = "Nil" -> TRUE
      [] OTHER -> FALSE

\* the match of Interpreter::visit_unary on (op.op_type, &val)
unary_match(op, val) ==
    CASE op.op_type = "Minus" /\ val.type = "Number" ->
            EvOk(ValueNumber(NumNeg(val.num)))
      [] op.op_type = "Bang" /\ val.type = "Number" ->
            EvOk(ValueBoolean(~is_truthy(val)))
      [] val.type = "String" ->
            EvErr([msg |-> "Invalid use of unary operator", op_type |-> op.op_type,
                   on |-> "String", line |-> op.line, col |-> op.col])
      [] val.type = "Boolean" ->
            EvErr([msg |-> "Invalid use of unary operator", op_type |-> op.op_type,
                   on |-> "Boolean", line |-> op.line, col |-> op.col])
      [] val.type = "Nil" ->
            EvErr([msg |-> "Invalid use of unary operator", op_type |-> op.op_type,
                   on |-> "Nil", line |-> op.line, col |-> op.col])

ZeroDivisionError(line, col) ==
    [msg |-> "ZeroDivisionError: division by zero", line |-> line, col |-> col]

\* mutation of divide: the test  *rn != 0.0  left out
divide_unchecked(ln, rn, op) == EvOk(ValueNumber(NumDiv(ln, rn)))

\* the arm of Number / Number in Interpreter::visit_binary
divide(ln, rn, op) ==
    IF ~NumIsZero(rn)
    THEN EvOk(ValueNumber(NumDiv(ln, rn)))
    ELSE EvErr(ZeroDivisionError(op.line, op.col))

\* the match of Interpreter::visit_binary on (&left, op.op_type, &right)
binary_match(left, op, right) ==
    LET numbers == left.type = "Number" /\ right.type = "Number"
        l == left.num
        r == right.num
    IN  CASE numbers /\ op.op_type = "Greater" -> EvOk(ValueBoolean(NumGt(l, r)))
          [] numbers /\ op.op_type = "GreaterEqual" -> EvOk(ValueBoolean(NumGe(l, r)))
          [] numbers /\ op.op_type = "Less" -> EvOk(ValueBoolean(NumLt(l, r)))
          [] numbers /\ op.op_type = "LessEqual" -> EvOk(ValueBoolean(NumLe(l, r)))
          [] numbers /\ op.op_type = "Plus" -> EvOk(ValueNumber(NumAdd(l, r)))
          [] numbers /\ op.op_type = "Minus" -> EvOk(ValueNumber(NumSub(l, r)))
          [] numbers /\ op.op_type = "Star" -> EvOk(ValueNumber(NumMul(l, r)))
          [] numbers /\ op.op_type = "Slash" -> divide(l, r, op)
          [] left.type = "String" /\ op.op_type = "Plus" /\ right.type = "String" ->
                EvOk(ValueString(left.str \o right.str))
          [] op.op_type = "EqualEqual" -> EvOk(ValueBoolean(equals(left, right)))
          [] op.op_type = "BangEqual" -> EvOk(ValueBoolean(~equals(left, right)))
          [] OTHER ->
                EvErr([msg |-> "Invalid operands for binary operator",
                       op_type |-> op.op_type, left |-> instance_of(left),
                       right |-> instance_of(right), line |-> op.line, col |-> op.col])

RECURSIVE evaluate_expr(_)

\* Interpreter::visit_unary: `?` hands an operand's error on
visit_unary(op, expr) ==
    LET val == evaluate_expr(expr)
    IN  IF val.kind /= "Ok" THEN val ELSE unary_match(op, val.v)

\* Interpreter::visit_binary: unwrap() panics on an operand's error, the
\* left operand's first
visit_binary(lhs, op, rhs) ==
    LET left == evaluate_expr(lhs)
    IN  IF left.kind = "Panic" THEN left
        ELSE IF left.kind = "Err" THEN EvPanic(<<"unwrap", left.v>>)
        ELSE LET right == evaluate_expr(rhs)
             IN  IF right.kind = "Panic" THEN right
                 ELSE IF right.kind = "Err" THEN EvPanic(<<"unwrap", right.v>>)
                 ELSE binary_match(left.v, op, right.v)

\* Interpreter::evaluate_expr
evaluate_expr(expr) ==
    CASE expr.node = "Literal" -> EvOk(visit_literal(expr.literal))
      [] expr.node = "Unary" -> visit_unary(expr.op, expr.e)
      [] expr.node = "Binary" -> visit_binary(expr.lhs, expr.op, expr.rhs)
      [] expr.node = "Grouping" -> evaluate_expr(expr.e)
      [] OTHER -> EvErr([msg |-> "E"])

\* the decimal digits of a natural number
RECURSIVE NatDigits(_)
NatDigits(n) ==
    LET d == <<"0", "1", "2", "3", "4", "5", "6", "7", "8", "9">>[(n % 10) + 1]
    IN  IF n < 10 THEN <<d>> ELSE Append(NatDigits(n \div 10), d)

\* the digits after the decimal point of r/d (r < d), or <<"...">> when the
\* expansion does not end within MaxDecimals digits
MaxDecimals == 6
RECURSIVE FracDigits(_, _, _)
FracDigits(r, d, left) ==
    IF r = 0 THEN <<>>
    ELSE IF left = 0 THEN <<"...">>
    ELSE NatDigits((10 * r) \div d) \o FracDigits((10 * r) % d, d, left - 1)

\* format!("{}", n) for an f64: the shortest decimal that reads back as n.
\* Written out for the rationals n/d of the model with a short expansion;
\* the others are cut with "..." (their digits are 16 or 17 in Rust).
format_f64(x) ==
    CASE x.cls = "nan" -> <<"N", "a", "N">>
      [] x.cls = "inf" -> <<"i", "n", "f">>
      [] x.cls = "ninf" -> <<"-", "i", "n", "f">>
      [] OTHER ->
            LET q == x.c[2]
                a == AbsInt(q[1])
                sign == IF NumSgn(x) < 0 THEN <<"-">> ELSE <<>>
                frac == FracDigits(a % q[2], q[2], MaxDecimals)
                small == \E i \in Limbs : i /= 2 /\ x.c[i] /= R0
            IN  IF small THEN <<"f64", x>>
                ELSE sign \o NatDigits(a \div q[2])
                     \o (IF frac = <<>> THEN <<>> ELSE <<".">> \o frac)

\* Interpreter::format_val
format_val(val) ==
    CASE val.type = "Number" -> format_f64(val.num)
      [] val.type = "String" -> val.str
      [] val.type = "Nil" -> <<"n", "i", "l">>
      [] val.type = "Boolean" ->
            IF val.bool THEN <<"t", "r", "u", "e">> ELSE <<"f", "a", "l", "s", "e">>

\* Interpreter::evaluate: what executing one statement leaves: Ok, Err or a
\* panic, the Environment, and the lines printed
Executed(kind, v, values, out) ==
    [kind |-> kind, v |-> v, values |-> values, out |-> out]

\* mutation of evaluate: a declaration defines the name (without a value)
\* before it evaluates the initializer
evaluate_defines_first(stmt, values) ==
    CASE stmt.stmt = "Expr" ->
            LET r == evaluate_expr(stmt.e)
            IN  Executed(r.kind, IF r.kind = "Ok" THEN <<>> ELSE r.v, values, <<>>)
      [] stmt.stmt = "Print" ->
            LET r == evaluate_expr(stmt.e)
            IN  IF r.kind = "Ok"
                THEN Executed("Ok", <<>>, values, <<format_val(r.v)>>)
                ELSE Executed(r.kind, r.v, values, <<>>)
      [] stmt.stmt = "VarDecl" ->
            LET r == IF stmt.initilizer.node /= "None"
                     THEN evaluate_expr(stmt.initilizer) ELSE EvOk(NoValue)
            IN  IF r.kind = "Ok"
                THEN Executed("Ok", <<>>, define(values, stmt.symbol, r.v), <<>>)
                ELSE Executed(r.kind, r.v,
                              define(values, stmt.symbol, NoValue), <<>>)

evaluate(stmt, values) ==
    CASE stmt.stmt = "Expr" ->
            LET r == evaluate_expr(stmt.e)
            IN  Executed(r.kind, IF r.kind = "Ok" THEN <<>> ELSE r.v, values, <<>>)
      [] stmt.stmt = "Print" ->
            LET r == evaluate_expr(stmt.e)
            IN  IF r.kind = "Ok"
                THEN Executed("Ok", <<>>, values, <<format_val(r.v)>>)
                ELSE Executed(r.kind, r.v, values, <<>>)
      [] stmt.stmt = "VarDecl" ->
            LET r == IF stmt.initilizer.node /= "None"
                     THEN evaluate_expr(stmt.initilizer) ELSE EvOk(NoValue)
            IN  IF r.kind = "Ok"
                THEN Executed("Ok", <<>>, define(values, stmt.symbol, r.v), <<>>)
                ELSE Executed(r.kind, r.v, values, <<>>)

(***************************************************************************)
(* The parser and the evaluator as processes.                              *)
(*   phase "parse"      in the loop of Parser::parse                       *)
(*   phase "parsed"     parse has returned Ok(statements)                  *)
(*   phase "eval"       in the loop of Interpreter::interpret              *)
(*   phase "evaluated"  interpret has returned                             *)
(*   phase "exit"       main has returned                                  *)
(***************************************************************************)
\* mutation of Declared: a failed declaration ends the loop with the
\* statements collected so far as the result (the error is dropped)
DeclaredReturnsPartial(r) ==
    /\ parser' = r.p
    /\ statements' = IF r.kind = "Ok" THEN Append(statements, r.v) ELSE statements
    /\ parseResult' = IF r.kind = "Err" THEN [kind |-> "Ok", v |-> statements]
                      ELSE parseResult
    /\ phase' = CASE r.kind = "Ok" -> "parse"
                  [] r.kind = "Err" -> "parsed"
                  [] OTHER -> "panic in parse"

\* one turn of the loop of Parser::parse: statements.push(self.declaration()?)
\* with r the Result of self.declaration()
Declared(r) ==
    /\ parser' = r.p
    /\ statements' = IF r.kind = "Ok" THEN Append(statements, r.v) ELSE statements
    /\ parseResult' = IF r.kind = "Err" THEN [kind |-> "Err", v |-> r.v]
                      ELSE parseResult
    /\ phase' = CASE r.kind = "Ok" -> "parse"
                  [] r.kind = "Err" -> "parse failed"
                  [] OTHER -> "panic in parse"

ParseDeclaration ==
    /\ phase = "parse"
    /\ ~parser_is_at_end(parser)
    /\ Declared(declaration(parser))
    /\ UNCHANGED <<input, scanner, stderr, program, ip, env, stdout, result,
                   defined, looked, operands, outcome, turns>>

\* the loop is left: Ok(statements)
ParseEnd ==
    /\ phase = "parse"
    /\ parser_is_at_end(parser)
    /\ parseResult' = [kind |-> "Ok", v |-> statements]
    /\ phase' = "parsed"
    /\ UNCHANGED <<input, scanner, stderr, parser, statements, program, ip,
                   env, stdout, result, defined, looked, operands, outcome, turns>>

\* mutation of Execute: the error of a statement is recorded but the loop
\* goes on to the next statement
ExecuteKeepsGoing ==
    /\ phase = "eval"
    /\ ip < Len(program)
    /\ LET r == evaluate(program[ip + 1], env)
       IN  /\ env' = r.values
           /\ stdout' = stdout \o r.out
           /\ ip' = ip + 1
           /\ result' = IF r.kind = "Err" THEN [kind |-> "Err", v |-> r.v]
                        ELSE result
           /\ phase' = IF r.kind = "Panic" THEN "panic in interpret" ELSE "eval"
    /\ UNCHANGED <<input, scanner, stderr, parser, statements, parseResult,
                   program, defined, looked, operands, outcome, turns>>

\* one turn of the loop of Interpreter::interpret: self.evaluate(stmt)?
Execute ==
    /\ phase = "eval"
    /\ ip < Len(program)
    /\ LET r == evaluate(program[ip + 1], env)
       IN  /\ env' = r.values
           /\ stdout' = stdout \o r.out
           /\ ip' = ip + 1
           /\ result' = IF r.kind = "Err" THEN [kind |-> "Err", v |-> r.v]
                        ELSE result
           /\ phase' = CASE r.kind = "Ok" -> "eval"
                         [] r.kind = "Err" -> "evaluated"
                         [] OTHER -> "panic in interpret"
    /\ UNCHANGED <<input, scanner, stderr, parser, statements, parseResult,
                   program, defined, looked, operands, outcome, turns>>

\* the loop is left: Ok(())
InterpretEnd ==
    /\ phase = "eval"
    /\ ip = Len(program)
    /\ result' = [kind |-> "Ok", v |-> <<>>]
    /\ phase' = "evaluated"
    /\ UNCHANGED <<input, scanner, stderr, parser, statements, parseResult,
                   program, ip, env, stdout, defined, looked, operands, outcome, turns>>

(***************************************************************************)
(* main (main.rs 54-68): scan, parse, interpret.                           *)
(***************************************************************************)
\* let mut parser = Parser { tokens, current: 0 }
MainParse ==
    /\ phase = "scanned"
    /\ parser' = [current |-> 0, tokens |-> scanner.tokens]
    /\ statements' = <<>>
    /\ phase' = "parse"
    /\ UNCHANGED <<input, scanner, stderr, parseResult, program, ip, env,
                   stdout, result, defined, looked, operands, outcome, turns>>

\* parser.parse().map_err(..)?  with an Err: main returns "Parse error."
MainParseError ==
    /\ phase = "parse failed"
    /\ stderr' = Append(stderr, [message |-> <<"Parse error.", "">>,
                                 line |-> 0, col |-> 0])
    /\ phase' = "exit"
    /\ UNCHANGED <<input, scanner, parser, statements, parseResult, program,
                   ip, env, stdout, result, defined, looked, operands, outcome, turns>>

\* interpreter.interpret(&program) on a fresh Interpreter
MainInterpret ==
    /\ phase = "parsed"
    /\ program' = parseResult.v
    /\ env' = << >>
    /\ ip' = 0
    /\ phase' = "eval"
    /\ UNCHANGED <<input, scanner, stderr, parser, statements, parseResult,
                   stdout, result, defined, looked, operands, outcome, turns>>

\* if let Err(e) = .. { eprintln!("Eval err: {}", e) }; Ok(())
MainExit ==
    /\ phase = "evaluated"
    /\ stderr' = IF result.kind = "Err"
                 THEN Append(stderr, [message |-> <<"Eval err", result.v>>,
                                      line |-> 0, col |-> 0])
                 ELSE stderr
    /\ phase' = "exit"
    /\ UNCHANGED <<input, scanner, parser, statements, parseResult, program,
                   ip, env, stdout, result, defined, looked, operands, outcome, turns>>

(***************************************************************************)
(* Values shared by the initial states.                                    *)
(***************************************************************************)
DefaultParser == [current |-> 0, tokens |-> <<>>]
NoResult == [kind |-> "None"]
EmptyEnv == << >>

Idle ==
    /\ parser = DefaultParser
    /\ statements = <<>>
    /\ parseResult = NoResult
    /\ program = <<>>
    /\ ip = 0
    /\ env = EmptyEnv
    /\ stdout = <<>>
    /\ result = NoResult
    /\ defined = <<>>
    /\ looked = NoResult
    /\ operands = NoResult
    /\ outcome = NoResult
    /\ turns = 0

\* all sequences over S of length at most n
RECURSIVE SeqsUpTo(_, _)
SeqsUpTo(S, n) ==
    IF n = 0 THEN {<<>>}
    ELSE LET shorter == SeqsUpTo(S, n - 1)
         IN  shorter \cup {Append(t, x) : t \in {u \in shorter : Len(u) = n - 1}, x \in S}

(***************************************************************************)
(* SpecScan: the scanner alone, on every text of at most MaxSrcLen bytes   *)
(* over ScanAlphabet that is a Rust String (valid UTF-8).                  *)
(***************************************************************************)
\* "@" and "#" are the invalid characters
ScanAlphabet ==
    {"1", ".", "o", "r", "_", Quote, NewLine, " ", "/", "=", "@", "#",
     Utf8Lead, Utf8Cont}

ScanTexts(n) == {t \in SeqsUpTo(ScanAlphabet, n) : from_utf8_ok(t)}

InitScan ==
    /\ phase = "start"
    /\ input \in ScanTexts(MaxSrcLen)
    /\ scanner = DefaultScanner
    /\ stderr = <<>>
    /\ Idle

NextScan == ScanStart \/ ScanToken \/ ScanEof

SpecScan == InitScan /\ [][NextScan]_vars

(***************************************************************************)
(* Spec: the pipeline of main on a script file.  The scripts are the       *)
(* programs of at most MaxStmts lines drawn from ScriptLines, and the      *)
(* print statements of an expression  1 op 2 op 3 ...  with at most MaxOps *)
(* binary operators.                                                       *)
(***************************************************************************)
Print_ == <<"p", "r", "i", "n", "t", " ">>
Var_ == <<"v", "a", "r", " ">>

ScriptLines ==
    { Print_ \o <<"1", ";">>,                                  \* print 1;
      Print_ \o <<Quote, "a", Quote, "+", Quote, "b", Quote, ";">>,
      <<"1", "/", "0", ";">>,                                  \* division by zero
      <<"1", "+", ";">>,                                       \* no operand
      Var_ \o <<"x", "=", "1", ";">>,
      Var_ \o <<"x", ";">>,
      <<"x", "=", "2", ";">>,
      Print_ \o <<"x", ";">>,
      Print_ \o <<"2">>,                                       \* no semicolon
      <<"1", "=", "2", ";">>,                                  \* not a target
      <<"-", Quote, "a", Quote, ";">>,                         \* -"a";
      Print_ \o <<"(", "1", "/", "0", ")", "+", "1", ";">> }

RECURSIVE JoinLines(_)
JoinLines(lines) ==
    IF lines = <<>> THEN <<>>
    ELSE Head(lines) \o <<NewLine>> \o JoinLines(Tail(lines))

Scripts == {JoinLines(ls) : ls \in SeqsUpTo(ScriptLines, MaxStmts)}

BinaryOperatorTexts ==
    {<<"+">>, <<"-">>, <<"*">>, <<"/">>, <<"<">>, <<"<", "=">>, <<">">>,
     <<">", "=">>, <<"=", "=">>, <<"!", "=">>}

\* 1 op[1] 2 op[2] 3 ... : the k-th operand is the number k
RECURSIVE OperandsAndOperators(_, _)
OperandsAndOperators(ops, k) ==
    IF ops = <<>> THEN NatDigits(k)
    ELSE NatDigits(k) \o Head(ops) \o OperandsAndOperators(Tail(ops), k + 1)

ExpressionScripts ==
    {Print_ \o OperandsAndOperators(ops, 1) \o <<";">> :
        ops \in SeqsUpTo(BinaryOperatorTexts, MaxOps) \ {<<>>}}

Init ==
    /\ phase = "start"
    /\ input \in Scripts \cup ExpressionScripts
    /\ scanner = DefaultScanner
    /\ stderr = <<>>
    /\ Idle

Next ==
    \/ ScanStart \/ ScanToken \/ ScanEof
    \/ MainParse \/ ParseDeclaration \/ ParseEnd \/ MainParseError
    \/ MainInterpret \/ Execute \/ InterpretEnd \/ MainExit

Spec == Init /\ [][Next]_vars

(***************************************************************************)
(* SpecInterp: Interpreter::interpret on a fresh Interpreter, handed every *)
(* statement list of at most MaxStmts statements drawn from                *)
(* StatementKinds; the statement at position i is on line i.               *)
(***************************************************************************)
X == <<"x">>
Y == <<"y">>
Num(n) == ExprLiteral(LiteralNumber(NumInt(n)))
Str(s) == ExprLiteral(LiteralString(s))
OneByZero(line) == ExprBinary(Num(1), BinaryOp("Slash", line, -1), Num(0))

StatementKinds ==
    {"print 1", "print a", "print 1/0", "var x = 1", "var x", "var x = 1/0",
     "x = 2", "x = 3", "print x", "print y", "print (1/0)+1", "-a",
     "var y = a"}

Statement(kind, line) ==
    CASE kind = "print 1" -> StmtPrint(Num(1))
      [] kind = "print a" -> StmtPrint(Str(<<"a">>))
      [] kind = "print 1/0" -> StmtPrint(OneByZero(line))
      [] kind = "var x = 1" -> StmtVarDecl(Symbol(X, line, -1), Num(1))
      [] kind = "var x" -> StmtVarDecl(Symbol(X, line, -1), NoExpr)
      [] kind = "var x = 1/0" -> StmtVarDecl(Symbol(X, line, -1), OneByZero(line))
      [] kind = "x = 2" -> StmtExpr(ExprAssign(Symbol(X, line, -1), Num(2)))
      [] kind = "x = 3" -> StmtExpr(ExprAssign(Symbol(X, line, -1), Num(3)))
      [] kind = "print x" -> StmtPrint(ExprVariable(Symbol(X, line, -1)))
      [] kind = "print y" -> StmtPrint(ExprVariable(Symbol(Y, line, -1)))
      [] kind = "print (1/0)+1" ->
            StmtPrint(ExprBinary(ExprGrouping(OneByZero(line)),
                                 BinaryOp("Plus", line, -1), Num(1)))
      [] kind = "-a" ->
            StmtExpr(ExprUnary(UnaryOp("Minus", line, -1), Str(<<"a">>)))
      [] kind = "var y = a" -> StmtVarDecl(Symbol(Y, line, -1), Str(<<"a">>))

StatementLists ==
    {[i \in 1 .. Len(kinds) |-> Statement(kinds[i], i)] :
        kinds \in SeqsUpTo(StatementKinds, MaxStmts)}

InitInterp ==
    /\ phase = "eval"
    /\ input = <<>>
    /\ scanner = DefaultScanner
    /\ stderr = <<>>
    /\ parser = DefaultParser
    /\ statements = <<>>
    /\ parseResult = NoResult
    /\ program \in StatementLists
    /\ ip = 0
    /\ env = EmptyEnv
    /\ stdout = <<>>
    /\ result = NoResult
    /\ defined = <<>>
    /\ looked = NoResult
    /\ operands = NoResult
    /\ outcome = NoResult
    /\ turns = 0

NextInterp == Execute \/ InterpretEnd

SpecInterp == InitInterp /\ [][NextInterp]_vars

(***************************************************************************)
(* SpecEnv: an Environment under at most MaxDefines define calls, the      *)
(* i-th at line i, and lookups in between.                                 *)
(***************************************************************************)
EnvNames == {X, Y}
EnvValues == {NoValue, ValueNumber(NumInt(1)), ValueString(<<"a">>)}

\* self.env.define(symbol, value)
EnvDefine ==
    /\ phase = "env"
    /\ Len(defined) < MaxDefines
    /\ \E name \in EnvNames, value \in EnvValues :
         LET symbol == Symbol(name, Len(defined) + 1, -1)
         IN  /\ env' = define(env, symbol, value)
             /\ defined' = Append(defined, [symbol |-> symbol, value |-> value])
    /\ UNCHANGED <<phase, input, scanner, stderr, parser, statements,
                   parseResult, program, ip, stdout, result, looked,
                   operands, outcome, turns>>

\* self.env.lookup(&symbol); `after` counts the define calls made before it
EnvLookup ==
    /\ phase = "env"
    /\ \E name \in EnvNames :
         LET symbol == Symbol(name, Len(defined) + 1, -1)
         IN  looked' = [kind |-> "lookup", symbol |-> symbol,
                        res |-> lookup(env, symbol), after |-> Len(defined)]
    /\ UNCHANGED <<phase, input, scanner, stderr, parser, statements,
                   parseResult, program, ip, env, stdout, result, defined,
                   operands, outcome, turns>>

InitEnv ==
    /\ phase = "env"
    /\ input = <<>>
    /\ scanner = DefaultScanner
    /\ stderr = <<>>
    /\ Idle

NextEnv == EnvDefine \/ EnvLookup

SpecEnv == InitEnv /\ [][NextEnv]_vars

(***************************************************************************)
(* SpecBinary: Interpreter::visit_binary on every operator and every pair  *)
(* of literal operands of OperandLiterals.                                 *)
(***************************************************************************)
OperandNumbers ==
    {NumInt(n) : n \in -1 .. MaxInt}
    \cup {NumEps(1, 2), NumEps(1, 1), Infinity, NaN}

OperandLiterals ==
    {LiteralNumber(n) : n \in OperandNumbers}
    \cup {LiteralString(<<"a">>), LiteralString(<<"b">>),
          LiteralTrue, LiteralFalse, LiteralNil}

BinaryOpTypes ==
    {"BangEqual", "EqualEqual", "Greater", "GreaterEqual", "Less",
     "LessEqual", "Minus", "Plus", "Slash", "Star"}

VisitBinary ==
    /\ phase = "call"
    /\ outcome' = visit_binary(operands.lhs, operands.op, operands.rhs)
    /\ phase' = "returned"
    /\ UNCHANGED <<input, scanner, stderr, parser, statements, parseResult,
                   program, ip, env, stdout, result, defined, looked, operands, turns>>

InitBinary ==
    /\ phase = "call"
    /\ input = <<>>
    /\ scanner = DefaultScanner
    /\ stderr = <<>>
    /\ parser = DefaultParser
    /\ statements = <<>>
    /\ parseResult = NoResult
    /\ program = <<>>
    /\ ip = 0
    /\ env = EmptyEnv
    /\ stdout = <<>>
    /\ result = NoResult
    /\ defined = <<>>
    /\ looked = NoResult
    /\ operands \in [lhs : {ExprLiteral(l) : l \in OperandLiterals},
                     op : {BinaryOp(t, 1, -1) : t \in BinaryOpTypes},
                     rhs : {ExprLiteral(l) : l \in OperandLiterals}]
    /\ outcome = NoResult
    /\ turns = 0

NextBinary == VisitBinary

SpecBinary == InitBinary /\ [][NextBinary]_vars

(***************************************************************************)
(* SpecUnary: Interpreter::visit_unary on both operators and on operands   *)
(* that are a literal, a parenthesised literal or a unary expression.      *)
(***************************************************************************)
UnaryOpTypes == {"Minus", "Bang"}

UnaryOperands ==
    {ExprLiteral(l) : l \in OperandLiterals}
    \cup {ExprGrouping(ExprLiteral(l)) : l \in OperandLiterals}
    \cup {ExprUnary(UnaryOp(t, 1, -1), ExprLiteral(l)) :
            t \in UnaryOpTypes, l \in OperandLiterals}

VisitUnary ==
    /\ phase = "call"
    /\ outcome' = visit_unary(operands.op, operands.e)
    /\ phase' = "returned"
    /\ UNCHANGED <<input, scanner, stderr, parser, statements, parseResult,
                   program, ip, env, stdout, result, defined, looked, operands, turns>>

InitUnary ==
    /\ phase = "call"
    /\ input = <<>>
    /\ scanner = DefaultScanner
    /\ stderr = <<>>
    /\ parser = DefaultParser
    /\ statements = <<>>
    /\ parseResult = NoResult
    /\ program = <<>>
    /\ ip = 0
    /\ env = EmptyEnv
    /\ stdout = <<>>
    /\ result = NoResult
    /\ defined = <<>>
    /\ looked = NoResult
    /\ operands \in [op : {UnaryOp(t, 1, -1) : t \in UnaryOpTypes},
                     e : UnaryOperands]
    /\ outcome = NoResult
    /\ turns = 0

NextUnary == VisitUnary

SpecUnary == InitUnary /\ [][NextUnary]_vars

(***************************************************************************)
(* SpecSync: Parser::synchronize, started at every cursor position of      *)
(* every sequence of at most MaxSyncTokens tokens followed by Eof.         *)
(*   phase "call"          synchronize entered                             *)
(*   phase "synchronize"   at the test of  while !self.is_at_end()         *)
(*   phase "synchronized"  synchronize has returned                        *)
(*   phase "panic in synchronize"  tokens[current - 1] with current = 0    *)
(***************************************************************************)
MaxSyncTokens == 3
MaxTurns == MaxSyncTokens + 2

SyncTokenTypes == {"Semicolon", "Var", "If", "Number"}

DeclarationStarts == {"If", "Var", "For", "Fun", "While"}

SyncTokens ==
    {[i \in 1 .. Len(ts) + 1 |->
        IF i <= Len(ts) THEN Token(ts[i], <<>>, 1, NoLiteral)
        ELSE Token("Eof", <<>>, 1, NoLiteral)] :
     ts \in SeqsUpTo(SyncTokenTypes, MaxSyncTokens)}

\* self.advance(), the first statement: advance returns self.previous(),
\* which indexes tokens[current - 1]
SyncAdvance ==
    /\ phase = "call"
    /\ parser' = parser_advance(parser)
    /\ phase' = IF parser_advance(parser).current = 0
                THEN "panic in synchronize" ELSE "synchronize"
    /\ UNCHANGED <<input, scanner, stderr, statements, parseResult, program,
                   ip, env, stdout, result, defined, looked, operands,
                   outcome, turns>>

\* one turn of the loop: return after a semicolon or before a token that
\* starts a declaration; otherwise the body does nothing
SyncTurn ==
    /\ phase = "synchronize"
    /\ ~parser_is_at_end(parser)
    /\ turns < MaxTurns
    /\ IF previous(parser).t_type = "Semicolon"
       THEN phase' = "synchronized" /\ turns' = turns
       ELSE IF parser_peek(parser).t_type \in DeclarationStarts
       THEN phase' = "synchronized" /\ turns' = turns
       ELSE phase' = phase /\ turns' = turns + 1
    /\ UNCHANGED <<input, scanner, stderr, parser, statements, parseResult,
                   program, ip, env, stdout, result, defined, looked,
                   operands, outcome>>

\* the loop is left at the end of the tokens: self.advance(), return
SyncEnd ==
    /\ phase = "synchronize"
    /\ parser_is_at_end(parser)
    /\ parser' = parser_advance(parser)
    /\ phase' = "synchronized"
    /\ UNCHANGED <<input, scanner, stderr, statements, parseResult, program,
                   ip, env, stdout, result, defined, looked, operands,
                   outcome, turns>>

InitSync ==
    /\ phase = "call"
    /\ input = <<>>
    /\ scanner = DefaultScanner
    /\ stderr = <<>>
    /\ \E ts \in SyncTokens, c \in 0 .. MaxSyncTokens :
          /\ c < Len(ts)
          /\ parser = [current |-> c, tokens |-> ts]
    /\ statements = <<>>
    /\ parseResult = NoResult
    /\ program = <<>>
    /\ ip = 0
    /\ env = EmptyEnv
    /\ stdout = <<>>
    /\ result = NoResult
    /\ defined = <<>>
    /\ looked = NoResult
    /\ operands = NoResult
    /\ outcome = NoResult
    /\ turns = 0

NextSync == SyncAdvance \/ SyncTurn \/ SyncEnd

SpecSync == InitSync /\ [][NextSync]_vars

(***************************************************************************)
(* Properties.                                                             *)
(***************************************************************************)
EofCount(tokens) ==
    Cardinality({i \in 1 .. Len(tokens) : tokens[i].t_type = "Eof"})

\* C1: for every source text, once scanning has ended the token sequence
\* holds exactly one Eof token and that token is the last one.
\* Fails in SpecScan: on a source holding a non-ASCII letter (bytes 0xC3 0xA9)
\* Scanner::identifier panics in String::from_utf8(..).unwrap(), so scanning
\* ends with no Eof token.
C1_ExactlyOneEofLast ==
    phase \notin {"start", "scan"} =>
        /\ scanner.tokens /= <<>>
        /\ scanner.tokens[Len(scanner.tokens)].t_type = "Eof"
        /\ EofCount(scanner.tokens) = 1

\* the environment after the first n statements of stmts
RECURSIVE EnvAfter(_, _)
EnvAfter(stmts, n) ==
    IF n = 0 THEN EmptyEnv ELSE evaluate(stmts[n], EnvAfter(stmts, n - 1)).values

StatementFails(stmts, i) ==
    evaluate(stmts[i], EnvAfter(stmts, i - 1)).kind /= "Ok"

\* index of the first statement that fails, Len(stmts) + 1 if none does
FirstFailure(stmts) ==
    IF \E i \in 1 .. Len(stmts) : StatementFails(stmts, i)
    THEN CHOOSE i \in 1 .. Len(stmts) :
            /\ StatementFails(stmts, i)
            /\ \A j \in 1 .. i - 1 : ~StatementFails(stmts, j)
    ELSE Len(stmts) + 1

\* the lines the print statements among the first n statements write
RECURSIVE PrintedBy(_, _)
PrintedBy(stmts, n) ==
    IF n = 0 THEN <<>>
    ELSE PrintedBy(stmts, n - 1) \o
         (IF stmts[n].stmt = "Print"
          THEN <<format_val(evaluate_expr(stmts[n].e).v)>> ELSE <<>>)

\* C2: interpret executes the statements in order and stops at the first
\* one that fails: no later statement is executed, the result is the error of
\* that statement, and what the earlier statements printed and defined stays.
C2_StopsAtFirstRuntimeError ==
    LET f == FirstFailure(program)
        done == IF ip < f THEN ip ELSE f - 1
    IN  /\ ip <= f
        /\ stdout = PrintedBy(program, done)
        /\ env = EnvAfter(program, done)
        /\ result.kind = "Err" =>
              /\ phase = "evaluated"
              /\ ip = f
              /\ result.v = evaluate(program[f], EnvAfter(program, f - 1)).v
        /\ (phase = "evaluated" /\ f <= Len(program)) =>
              /\ result.kind = "Err"
              /\ ip = f
        /\ (phase = "evaluated" /\ result.kind = "Ok") =>
              /\ f = Len(program) + 1
              /\ ip = Len(program)

\* a run that stopped at a failing statement after a print, with a print
\* statement left unexecuted behind it
C2_Witness ==
    /\ phase = "evaluated"
    /\ result.kind = "Err"
    /\ result.v = ZeroDivisionError(ip, -1)
    /\ stdout /= <<>>
    /\ ip < Len(program)
    /\ \E j \in ip + 1 .. Len(program) :
          /\ program[j].stmt = "Print"
          /\ evaluate_expr(program[j].e).kind = "Ok"

\* the first declaration of the token sequence that does not parse: the
\* result of Parser::declaration for it, or Ok if every declaration parses
RECURSIVE FirstParseFailure(_)
FirstParseFailureAfter(r) ==
    IF r.kind = "Ok" THEN FirstParseFailure(r.p) ELSE r

FirstParseFailure(p) ==
    IF parser_is_at_end(p) THEN Ok(p, <<>>)
    ELSE FirstParseFailureAfter(declaration(p))

ParsingBegun ==
    phase \notin {"start", "scan", "scanned", "panic in scan_tokens"}

\* C3: when a declaration of the program does not parse, parse returns only
\* the first parse error and no statement list, and the pipeline evaluates
\* nothing: no statement is executed and nothing is printed, also for the
\* statements that precede the failing one.
C3_ParseErrorNoEvaluation ==
    LET f == FirstParseFailure([current |-> 0, tokens |-> scanner.tokens])
    IN  (ParsingBegun /\ f.kind = "Err") =>
            /\ phase \in {"parse", "parse failed", "exit"}
            /\ parseResult \in {NoResult, [kind |-> "Err", v |-> f.v]}
            /\ phase \in {"parse failed", "exit"} =>
                  parseResult = [kind |-> "Err", v |-> f.v]
            /\ program = <<>>
            /\ ip = 0
            /\ env = EmptyEnv
            /\ stdout = <<>>
            /\ result = NoResult

\* the pipeline has ended on a parse error (an operator with no right
\* operand) that follows a print statement which parsed
C3_Witness ==
    /\ phase = "exit"
    /\ parseResult.kind = "Err"
    /\ parseResult.v.error = "ExpectedExpression"
    /\ statements /= <<>>
    /\ statements[1].stmt = "Print"
    /\ stdout = <<>>

\* C4: parse of any token sequence the scanner produced returns either the
\* list of statements or one structured parse error, and it never crashes.
\* Fails in Spec: an Identifier token carries no literal (Scanner::identifier
\* calls add_token), so Parser::primary panics on  x=2;  and on  print x;
C4_ParseNeverCrashes ==
    /\ phase /= "panic in parse"
    /\ phase \in {"parsed", "parse failed"} =>
          \/ /\ parseResult.kind = "Ok"
             /\ \A i \in 1 .. Len(parseResult.v) :
                   parseResult.v[i].stmt \in {"Expr", "Print", "VarDecl"}
          \/ /\ parseResult.kind = "Err"
             /\ parseResult.v.error \in
                   {"TokenMissmatch", "ExpectedExpression", "InvalidAssignment"}

\* a declaration of name with an initializer, then assignments of literals
\* to name, then  print name
IsAssignTo(stmt, name) ==
    /\ stmt.stmt = "Expr"
    /\ stmt.e.node = "Assign"
    /\ stmt.e.symbol.name = name
    /\ stmt.e.e.node = "Literal"

DeclareAssignPrint(stmts, name) ==
    /\ Len(stmts) >= 2
    /\ stmts[1].stmt = "VarDecl"
    /\ stmts[1].symbol.name = name
    /\ stmts[1].initilizer.node = "Literal"
    /\ \A i \in 2 .. Len(stmts) - 1 : IsAssignTo(stmts[i], name)
    /\ stmts[Len(stmts)].stmt = "Print"
    /\ stmts[Len(stmts)].e.node = "Variable"
    /\ stmts[Len(stmts)].e.symbol.name = name

\* the literal assigned last (the initializer if there is no assignment)
LastAssigned(stmts) ==
    IF Len(stmts) = 2 THEN stmts[1].initilizer.literal
    ELSE stmts[Len(stmts) - 1].e.e.literal

\* C5: after a declaration with an initializer and any sequence of
\* assignments to the name, a reference to the name evaluates to the value
\* assigned last:  var x = 1; x = 2; print x;  prints 2.
\* Fails in SpecInterp: Interpreter::evaluate_expr has no arm for
\* Expr::Assign and Expr::Variable, it returns Err("E") for both.
C5_ReadsLastAssignment ==
    (phase = "evaluated" /\ DeclareAssignPrint(program, X)) =>
        /\ result.kind = "Ok"
        /\ stdout = <<format_val(visit_literal(LastAssigned(program)))>>

\* C6: a reference to a name declared without a value fails with the
\* "declared but not defined" error citing the declaration, a reference to a
\* name never declared fails with the "not declared" error.
\* Fails in SpecInterp: Environment::get is never called, the reference
\* fails with Err("E") in both cases.
C6_NameErrors ==
    (/\ phase = "evaluated"
     /\ ip > 0
     /\ program[ip].stmt = "Print"
     /\ program[ip].e.node = "Variable"
     /\ lookup(env, program[ip].e.symbol).kind /= "Ok") =>
        /\ result.kind = "Err"
        /\ result.v = get(env, program[ip].e.symbol).v

\* index of the last define of name in history, 0 if there is none
LastDefine(history, name) ==
    IF \E i \in 1 .. Len(history) : history[i].symbol.name = name
    THEN CHOOSE i \in 1 .. Len(history) :
            /\ history[i].symbol.name = name
            /\ \A j \in i + 1 .. Len(history) : history[j].symbol.name /= name
    ELSE 0

ExpectedLookup(history, name) ==
    LET i == LastDefine(history, name)
    IN  IF i = 0 THEN [kind |-> "NotDeclared", val |-> NoValue,
                       loc |-> [line |-> 0, col |-> 0]]
        ELSE IF history[i].value.type = "None"
             THEN [kind |-> "DeclaredNotDefined", val |-> NoValue,
                   loc |-> [line |-> history[i].symbol.line,
                            col |-> history[i].symbol.col]]
             ELSE [kind |-> "Ok", val |-> history[i].value,
                   loc |-> [line |-> 0, col |-> 0]]

\* C7: after any sequence of define operations, lookup(name) is determined
\* by the last define of that name alone: its value, declared-not-defined
\* with its location if it carried no value, not-declared if there is none.
C7_LookupIsLastDefine ==
    /\ \A name \in EnvNames :
          lookup(env, Symbol(name, 0, 0)) = ExpectedLookup(defined, name)
    /\ looked.kind = "lookup" =>
          looked.res = ExpectedLookup(SubSeq(defined, 1, looked.after),
                                      looked.symbol.name)

\* a lookup of a name defined with a value, then again without one, with a
\* define of the other name among the defines
C7_Witness ==
    /\ looked.kind = "lookup"
    /\ looked.res.kind = "DeclaredNotDefined"
    /\ \E i, j, k \in 1 .. looked.after :
          /\ i < j
          /\ defined[i].symbol.name = looked.symbol.name
          /\ defined[i].value.type /= "None"
          /\ defined[j].symbol.name = looked.symbol.name
          /\ looked.res.loc.line = j
          /\ defined[k].symbol.name /= looked.symbol.name

NumberOperands ==
    /\ operands.lhs.literal.kind = "Number"
    /\ operands.rhs.literal.kind = "Number"

\* C8: for Number operands a and b, a / b fails with the division-by-zero
\* error when b is zero and never yields a Number then; for every other b it
\* yields the Number quotient (the q with q * b = a when a and b are finite).
C8_DivisionByZero ==
    (phase = "returned" /\ operands.op.op_type = "Slash" /\ NumberOperands) =>
        LET a == operands.lhs.literal.num
            b == operands.rhs.literal.num
        IN  IF b = NumInt(0)
            THEN outcome = [kind |-> "Err",
                            v |-> [msg |-> "ZeroDivisionError: division by zero",
                                   line |-> operands.op.line,
                                   col |-> operands.op.col]]
            ELSE /\ outcome.kind = "Ok"
                 /\ outcome.v.type = "Number"
                 /\ (a.cls = "fin" /\ b.cls = "fin") =>
                       /\ outcome.v.num.cls = "fin"
                       /\ NumMul(outcome.v.num, b) = a
                 /\ (is_nan(a) \/ is_nan(b)) => is_nan(outcome.v.num)

\* a division of a Number other than zero by zero has returned the error
C8_Witness ==
    /\ phase = "returned"
    /\ operands.op.op_type = "Slash"
    /\ NumberOperands
    /\ operands.lhs.literal.num = NumInt(1)
    /\ operands.rhs.literal.num = NumInt(0)
    /\ outcome.kind = "Err"

\* the Value a literal operand evaluates to
OperandValue(e) ==
    CASE e.literal.kind = "Number" -> ValueNumber(e.literal.num)
      [] e.literal.kind = "String" -> ValueString(e.literal.str)
      [] e.literal.kind = "True" -> ValueBoolean(TRUE)
      [] e.literal.kind = "False" -> ValueBoolean(FALSE)
      [] e.literal.kind = "Nil" -> ValueNil

\* same kind and equal value; NaN equals nothing
StructurallyEqual(l, r) ==
    /\ l = r
    /\ ~(l.type = "Number" /\ is_nan(l.num))

\* as StructurallyEqual, but two Numbers are equal when neither is NaN and
\* their difference lies strictly between -EPSILON and EPSILON
EqualWithinEpsilon(l, r) ==
    IF l.type = "Number" /\ r.type = "Number"
    THEN /\ ~is_nan(l.num) /\ ~is_nan(r.num)
         /\ NumLt(NumNeg(EPSILON), NumSub(l.num, r.num))
         /\ NumLt(NumSub(l.num, r.num), EPSILON)
    ELSE l = r

EqualityOperator ==
    /\ phase = "returned"
    /\ operands.op.op_type \in {"EqualEqual", "BangEqual"}

Level(op_type) ==
    CASE op_type \in {"EqualEqual", "BangEqual"} -> 1
      [] op_type \in {"Less", "LessEqual", "Greater", "GreaterEqual"} -> 2
      [] op_type \in {"Plus", "Minus"} -> 3
      [] op_type \in {"Star", "Slash"} -> 4

\* the tree of an expression without parentheses: a left operand binds at
\* least as tightly as its parent, a right operand strictly tighter
RECURSIVE WellShaped(_)
WellShaped(e) ==
    IF e.node /= "Binary" THEN e.node = "Literal"
    ELSE /\ WellShaped(e.lhs)
         /\ WellShaped(e.rhs)
         /\ e.lhs.node = "Binary" => Level(e.lhs.op.op_type) >= Level(e.op.op_type)
         /\ e.rhs.node = "Binary" => Level(e.rhs.op.op_type) > Level(e.op.op_type)

\* literals and operators of a tree from left to right
RECURSIVE InOrder(_)
InOrder(e) ==
    IF e.node = "Binary"
    THEN InOrder(e.lhs) \o <<e.op.op_type>> \o InOrder(e.rhs)
    ELSE <<e.literal.num>>

\* numbers and operators of the tokens between `print` and `;`
TokensInOrder(tokens) ==
    [i \in 1 .. Len(tokens) - 3 |->
        IF tokens[i + 1].t_type = "Number" THEN tokens[i + 1].literal.num
        ELSE tokens[i + 1].t_type]

Text(e) == Print_ \o e \o <<";">>
Bin(l, op, r) == ExprBinary(l, BinaryOp(op, 1, -1), r)

\* C10: for every expression of literals and binary operators the parser
\* binds multiplicative operators tighter than additive ones, these tighter
\* than comparison, these tighter than equality, and folds the operators of
\* one level to the left:  1-2-3  parses as (1-2)-3  and  1+2*3-4  as
\* (1+(2*3))-4, which evaluates to Number 3.
C10_PrecedenceAndLeftAssociativity ==
    (input \in ExpressionScripts /\ phase \in {"parsed", "eval", "evaluated", "exit"}) =>
        /\ parseResult.kind = "Ok"
        /\ Len(parseResult.v) = 1
        /\ parseResult.v[1].stmt = "Print"
        /\ WellShaped(parseResult.v[1].e)
        /\ InOrder(parseResult.v[1].e) = TokensInOrder(scanner.tokens)
        /\ input = Text(<<"1", "-", "2", "-", "3">>) =>
              parseResult.v[1].e = Bin(Bin(Num(1), "Minus", Num(2)), "Minus", Num(3))
        /\ input = Text(<<"1", "+", "2", "*", "3", "-", "4">>) =>
              /\ parseResult.v[1].e =
                    Bin(Bin(Num(1), "Plus", Bin(Num(2), "Star", Num(3))),
                        "Minus", Num(4))
              /\ evaluate_expr(parseResult.v[1].e) = EvOk(ValueNumber(NumInt(3)))
              /\ phase = "exit" => stdout = <<<<"3">>>>

\* print 1+2*3-4;  has run through the pipeline and printed 3
C10_Witness ==
    /\ input = Text(<<"1", "+", "2", "*", "3", "-", "4">>)
    /\ phase = "exit"
    /\ parseResult.kind = "Ok"
    /\ stdout = <<<<"3">>>>

\* only Nil and Boolean false are falsy
Truthiness(v) ==
    CASE v.type = "Nil" -> FALSE
      [] v.type = "Boolean" -> v.bool
      [] OTHER -> TRUE

\* C11: for every operand Value, unary ! yields the Boolean negation of the
\* operand's truthiness: true for Nil, the negation of a Boolean, false for
\* every Number and every String.
\* Fails in SpecUnary: Interpreter::visit_unary has an Ok arm for
\* (Bang, Number) only; on a Boolean, a Nil or a String operand it returns
\* the "Invalid use of unary operator" error.
C11_BangNegatesTruthiness ==
    (/\ phase = "returned"
     /\ operands.op.op_type = "Bang"
     /\ operands.e.node \in {"Literal", "Grouping"}) =>
        outcome = [kind |-> "Ok",
                   v |-> ValueBoolean(~Truthiness(evaluate_expr(operands.e).v))]

\* the payload Literal::Indentifier(text)
IdentifierLiteral(text) == [kind |-> "Identifier", num |-> NumInt(0), str |-> text]

IsIdentifierLexeme(lexeme) ==
    /\ lexeme /= <<>>
    /\ is_alpha(lexeme[1])
    /\ \A i \in 1 .. Len(lexeme) : is_alpha_numeric(lexeme[i])

\* C12: for every identifier lexeme the scanner emits the keyword token of
\* the matching kind when the text is one of the sixteen keywords, and
\* otherwise an Identifier token whose literal is the identifier text.
\* Fails in SpecScan: Scanner::identifier ends with add_token, so an
\* Identifier token has no literal (only its lexeme holds the text).
C12_KeywordOrIdentifierWithText ==
    /\ Cardinality(DOMAIN keywords) = 16
    /\ \A i \in 1 .. Len(scanner.tokens) :
          IsIdentifierLexeme(scanner.tokens[i].lexeme) =>
              IF scanner.tokens[i].lexeme \in DOMAIN keywords
              THEN scanner.tokens[i].t_type = keywords[scanner.tokens[i].lexeme]
              ELSE /\ scanner.tokens[i].t_type = "Identifier"
                   /\ scanner.tokens[i].literal =
                         IdentifierLiteral(scanner.tokens[i].lexeme)

\* the characters that start no lexeme
InvalidCharacter(c) ==
    /\ c \notin {"(", ")", "{", "}", ",", ".", "-", "+", "*", ";", "!", "=",
                 "<", ">", "/", Quote, " ", "\r", "\t", NewLine}
    /\ ~is_ascii_digit(c)
    /\ ~is_alpha(c)

\* the loop of Scanner::scan_tokens run to its end on scanner s
RECURSIVE ScanLoop(_)
ScanLoopAfter(r) ==
    IF r.panic THEN [s |-> r.s, panic |-> TRUE] ELSE ScanLoop(r.s)

ScanLoop(s) ==
    IF scanner_is_at_end(s) THEN [s |-> s, panic |-> FALSE]
    ELSE ScanLoopAfter(scan_token([s EXCEPT !.start = s.current]))

\* the positions (from 1) at which the loop starts a lexeme
RECURSIVE LexemeStarts(_)
LexemeStartsAfter(r) ==
    IF r.panic THEN {} ELSE LexemeStarts(r.s)

LexemeStarts(s) ==
    IF scanner_is_at_end(s) THEN {}
    ELSE {s.current + 1} \cup
         LexemeStartsAfter(scan_token([s EXCEPT !.start = s.current]))

\* the positions at which the scan of text meets an invalid character
InvalidPositions(text) ==
    {p \in LexemeStarts([DefaultScanner EXCEPT !.source = text]) :
        InvalidCharacter(text[p])}

\* text with a space in place of every invalid character the scan meets
Blanked(text) ==
    [i \in 1 .. Len(text) |->
        IF i \in InvalidPositions(text) THEN " " ELSE text[i]]

LastOf(positions) == CHOOSE p \in positions : \A q \in positions : q <= p

TokensBeforeEof ==
    IF phase = "scanned" THEN SubSeq(scanner.tokens, 1, Len(scanner.tokens) - 1)
    ELSE scanner.tokens

InvalidCharacterDiagnostics ==
    {i \in 1 .. Len(stderr) : stderr[i].message[1] = "Invalid character"}

ScanEnded == phase \in {"scanned", "panic in scan_tokens"}

\* what the scan does with the invalid characters it meets: none yields a
\* token, each is reported, and the lexemes around them yield the tokens
\* they yield with a space in place of each invalid character
ScanContinues ==
    LET ref == ScanLoop([DefaultScanner EXCEPT !.source = Blanked(input)])
    IN  /\ TokensBeforeEof = ref.s.tokens
        /\ (phase = "panic in scan_tokens") = ref.panic
        /\ Cardinality(InvalidCharacterDiagnostics) =
              Cardinality(InvalidPositions(input))

\* C13 as stated: after an invalid character that is not the last character
\* the scan continues, and after the scan the retained error is the one of
\* the last invalid character met.  Fails in SpecScan: for  @"  the
\* retained error is the one of the unterminated string.
C13_LastInvalidCharacterRetained ==
    (phase = "scanned" /\ \E p \in InvalidPositions(input) : p < Len(input)) =>
        /\ ScanContinues
        /\ scanner.error =
              <<"Invalid character", input[LastOf(InvalidPositions(input))]>>

\* C13 amended: after an invalid character the scan continues: the invalid
\* character yields no token and every lexeme after it yields its token;
\* after the scan the retained error is the one of the last lexical error
\* met: the last invalid character's, unless an unterminated string follows
\* it, whose error then replaces it.
C13_LastLexicalErrorRetained ==
    (ScanEnded /\ InvalidPositions(input) /= {}) =>
        /\ ScanContinues
        /\ phase = "scanned" =>
              scanner.error =
                 IF ScanLoop([DefaultScanner EXCEPT !.source = Blanked(input)]).s.error
                        = <<"Unterminated string.", "">>
                 THEN <<"Unterminated string.", "">>
                 ELSE <<"Invalid character",
                        input[LastOf(InvalidPositions(input))]>>

\* the scan of  @o#1  has ended with the tokens of o and 1 and the error of #
C13_Witness ==
    /\ phase = "scanned"
    /\ input = <<"@", "o", "#", "1">>
    /\ Len(scanner.tokens) = 3
    /\ scanner.tokens[1].t_type = "Identifier"
    /\ scanner.tokens[2].t_type = "Number"
    /\ scanner.error = <<"Invalid character", "#">>

\* C14: in every diagnostic the scanner writes for a lexical error (invalid
\* character or unterminated string) the column is the sentinel -1.
\* Fails in SpecScan: the '\n' arm of Scanner::scan_token sets self.col = 0,
\* so every diagnostic after the first line break reports column 0.
C14_ColumnIsSentinel ==
    \A i \in 1 .. Len(stderr) : stderr[i].col = -1

\* the program begins with a one-token left-hand side followed by `=`
BeginsWithAssignment ==
    /\ ParsingBegun
    /\ Len(scanner.tokens) >= 2
    /\ scanner.tokens[2].t_type = "Equal"

\* C15: an equality-level expression that is not a variable reference,
\* followed by `=`, fails with the invalid-assignment-target error carrying
\* the line of that `=`; with a variable reference on the left the result
\* is an assignment node with the same name and the parsed right-hand side.
\* Fails in Spec: for  x=2;  Parser::primary panics on the Identifier
\* token, so no assignment node is ever built from scanned text.
C15_AssignmentTarget ==
    BeginsWithAssignment =>
        IF scanner.tokens[1].t_type = "Identifier"
        THEN /\ phase /= "panic in parse"
             /\ statements /= <<>> =>
                   /\ statements[1].stmt = "Expr"
                   /\ statements[1].e.node = "Assign"
                   /\ statements[1].e.symbol.name = scanner.tokens[1].lexeme
                   /\ statements[1].e.e =
                         assignment([current |-> 2, tokens |-> scanner.tokens]).v
        ELSE phase /= "parse" =>
                parseResult =
                   [kind |-> "Err",
                    v |-> [error |-> "InvalidAssignment",
                           line |-> scanner.tokens[2].line, col |-> -1]]

\* an operand of the binary expression e fails with a runtime error
OperandFails(e) ==
    /\ e.node = "Binary"
    /\ \/ evaluate_expr(e.lhs).kind = "Err"
       \/ evaluate_expr(e.rhs).kind = "Err"

\* the error of the left operand if it fails, else the right operand's
OperandError(e) ==
    IF evaluate_expr(e.lhs).kind = "Err"
    THEN evaluate_expr(e.lhs).v ELSE evaluate_expr(e.rhs).v

\* C16: when the left or the right operand of a binary expression fails
\* with a runtime error, the binary expression ends with that same error as
\* an error value (the left operand's first) and interpret returns it as
\* the program's result.
\* Fails in SpecInterp: Interpreter::visit_binary takes both operands with
\* unwrap(), which panics on an operand's error:  print (1/0)+1;  crashes.
C16_OperandErrorIsReturned ==
    (/\ ip > 0
     /\ program[ip].stmt = "Print"
     /\ OperandFails(program[ip].e)) =>
        /\ phase = "evaluated"
        /\ result = [kind |-> "Err", v |-> OperandError(program[ip].e)]

\* C17: started at any cursor position of any token sequence ending in Eof,
\* synchronize terminates, and when it returns the cursor is just after a
\* semicolon, or at a token of kind if, var, for, fun or while, or at Eof.
\* A loop that ends takes at most one turn per token.
\* Fails in SpecSync: the body of the loop never advances the cursor, so
\* unless the first turn returns the loop turns forever on the same token;
\* and started at cursor 0 on the lone Eof token, advance panics.
C17_SynchronizeTerminates ==
    /\ turns <= Len(parser.tokens)
    /\ phase /= "panic in synchronize"
    /\ phase = "synchronized" =>
          \/ previous(parser).t_type = "Semicolon"
          \/ parser_peek(parser).t_type \in {"If", "Var", "For", "Fun", "While"}
          \/ parser_peek(parser).t_type = "Eof"

\* the next statement to execute is a variable declaration
AtDeclaration ==
    /\ phase = "eval"
    /\ ip < Len(program)
    /\ program[ip + 1].stmt = "VarDecl"

InitializerFails(stmt) ==
    /\ stmt.initilizer.node /= "None"
    /\ evaluate_expr(stmt.initilizer).kind /= "Ok"

SameBindingsExcept(name) ==
    /\ DOMAIN env' \ {name} = DOMAIN env \ {name}
    /\ \A n \in DOMAIN env \ {name} : env'[n] = env[n]

\* C18: executing a variable declaration leaves the Environment exactly as
\* it was when the initializer fails; when it succeeds only the binding of
\* the declared name changes, to the initializer's value, and with no
\* initializer to declared-not-defined with the declaration's location.
C18_DeclarationFrame ==
    [][AtDeclaration =>
         IF InitializerFails(program[ip + 1])
         THEN env' = env
         ELSE /\ SameBindingsExcept(program[ip + 1].symbol.name)
              /\ lookup(env', program[ip + 1].symbol) =
                    IF program[ip + 1].initilizer.node = "None"
                    THEN [kind |-> "DeclaredNotDefined", val |-> NoValue,
                          loc |-> [line |-> program[ip + 1].symbol.line,
                                   col |-> program[ip + 1].symbol.col]]
                    ELSE [kind |-> "Ok",
                          val |-> evaluate_expr(program[ip + 1].initilizer).v,
                          loc |-> [line |-> 0, col |-> 0]]]_vars

\* a declaration of x whose initializer failed, after declarations of x and
\* of y: both bindings are as those declarations left them
C18_Witness ==
    /\ phase = "evaluated"
    /\ result.kind = "Err"
    /\ ip = 3
    /\ program[3].stmt = "VarDecl"
    /\ program[3].symbol.name = X
    /\ InitializerFails(program[3])
    /\ DOMAIN env = {X, Y}
    /\ env[X].loc.line < 3
    /\ env[X].value.type /= "None"

====
